---- MODULE Spec2Model ----
(***************************************************************************)
(* A model of tce, the Thermal Colorization Engine (src/src/main.rs).      *)
(*                                                                         *)
(* Spec       the whole run of main: the configuration display, the        *)
(*            prompt, the loop over scan positions, translations and       *)
(*            Config::colorize, one step per point of the rxp stream.      *)
(* SpecMean   the averaging expression of colorize applied to a vector of  *)
(*            samples and to its re-enumerations.                          *)
(* SpecColor  Config::to_color applied to temperatures under gradients     *)
(*            built by Config::new.                                        *)
(*                                                                         *)
(* Numbers.  Temperatures are integers counting twentieths of a degree     *)
(* (10.0 degrees is 200, 273.15 K is 5463).  f64 arithmetic is a binary    *)
(* floating point with round-to-nearest, ties-to-even, a significand of    *)
(* MantBits bits (53 in the program) and smallest exponent 0, so that      *)
(* every value is an integer and rounding happens from 2^MantBits on.      *)
(* The f32 expression of to_color is evaluated in exact arithmetic; at the  *)
(* stops and the midpoint of the gradient the f32 operations of the        *)
(* program are exact as well.  to_intensity is evaluated in the f32 of the *)
(* program, 24 significant bits, on reflectances that are integers in a    *)
(* unit of their own (a power of two).  `as u16` is Rust's saturating,     *)
(* truncating cast, with NaN going to 0.                                   *)
(***************************************************************************)
EXTENDS Integers, Sequences, FiniteSets, TLC

VARIABLES
    config,        \* Config: the command-line options (main.rs 108-136)
    project,       \* Config.project and the image directory: rxp files and irb images per scan position
    pc,            \* where main is
    panic,         \* which unwrap / expect / panic! ended the run ("none" while it runs)
    queue,         \* scan positions the for loop of main has still to visit
    sp,            \* the scan position being colorized (0: none)
    trs,           \* translations of sp still to colorize
    tr,            \* the translation being colorized
    groups,        \* image_groups of the running colorize call
    pos,           \* points read from the open rxp stream
    point,         \* the last point sampled by the loop body: its index and its temperatures
    files,         \* the las directory: per output path, whether it exists, who wrote it, its points
    stats,         \* per scan position: points read, written, read without any temperature
    opened,        \* how many irb images, rxp streams and las writers were opened so far
    resolved,      \* per scan position: image_groups calls made by colorize
    evaluated,     \* whether to_intensity was evaluated
    samples,       \* SpecMean: the vector of temperatures in its current enumeration order
    mean_first,    \* SpecMean: the mean of the first enumeration
    mean_now,      \* SpecMean: the mean of the current enumeration
    tc_n,          \* SpecColor: the temperature given to to_color
    tc_color,      \* SpecColor: the color returned
    ti_n,          \* SpecIntensity: the reflectance given to to_intensity
    ti_intensity   \* SpecIntensity: the intensity returned

runvars == <<pc, panic, queue, sp, trs, tr, groups, pos, point, files, stats,
             opened, resolved, evaluated>>
meanvars == <<samples, mean_first, mean_now>>
colorvars == <<tc_n, tc_color>>
intensityvars == <<ti_n, ti_intensity>>
vars == <<config, project, runvars, meanvars, colorvars, intensityvars>>

----------------------------------------------------------------------------
(* Bounds of the model *)

\* significand width of the modelled f64
MantBits == 13
\* significand width of the modelled f32 (the target of `temperature as f32`)
F32Bits == 10
\* irb images found in the image directory of one scan position
MaxImages == 2
\* points the rxp streams of one run deliver, all streams together
MaxPoints == 2
\* temperatures of one point in SpecMean
MaxSamples == 3

----------------------------------------------------------------------------
(* Floating point *)

Pow2(n) == 2^n

Abs(x) == IF x < 0 THEN 0 - x ELSE x

\* num / den (num >= 0, den > 0) rounded to the nearest integer, ties to even
RoundNearestEven(num, den) ==
    LET q == num \div den
        r == num % den
    IN  IF 2 * r > den \/ (2 * r = den /\ q % 2 = 1) THEN q + 1 ELSE q

\* the least e >= 0 with a < 2^(bits + e)
RECURSIVE Exponent(_, _)
Exponent(bits, a) == IF a < Pow2(bits) THEN 0 ELSE 1 + Exponent(bits, a \div 2)

\* the floating-point number of `bits` significant bits nearest to num / den (den > 0)
Round(bits, num, den) ==
    LET a    == Abs(num)
        step == Pow2(Exponent(bits, a \div den))
        m    == step * RoundNearestEven(a, den * step)
    IN  IF num < 0 THEN 0 - m ELSE m

\* f64 + and / of main.rs 256
FAdd(x, y) == Round(MantBits, x + y, 1)
FDiv(x, n) == Round(MantBits, x, n)

\* a float that may be NaN
NaN == [nan |-> TRUE, v |-> 0]
Num(v) == [nan |-> FALSE, v |-> v]

\* `temperature as f32` (main.rs 269)
F64ToF32(t) == IF t.nan THEN NaN ELSE Num(Round(F32Bits, t.v, 1))

\* u16::MAX (main.rs 305-307, 313)
U16_MAX == 65535

\* x / den truncated toward zero (den > 0)
Trunc(num, den) == IF num < 0 THEN 0 - ((0 - num) \div den) ELSE num \div den

\* mutant of ScaleToU16: the cast of NaN saturates upward
ScaleToU16_NaNMax(c) ==
    IF c.nan THEN U16_MAX
    ELSE LET t == Trunc(U16_MAX * c.num, c.den)
         IN  IF t < 0 THEN 0 ELSE IF t > U16_MAX THEN U16_MAX ELSE t

\* mutant of ScaleToU16: the product is rounded to the nearest integer, not truncated
ScaleToU16_Round(c) ==
    IF c.nan THEN 0
    ELSE LET t == Trunc(2 * U16_MAX * c.num + c.den, 2 * c.den)
         IN  IF t < 0 THEN 0 ELSE IF t > U16_MAX THEN U16_MAX ELSE t

\* `(u16::MAX as f32 * c) as u16` for a channel c = num / den, or NaN
ScaleToU16(c) ==
    IF c.nan THEN 0
    ELSE LET t == Trunc(U16_MAX * c.num, c.den)
         IN  IF t < 0 THEN 0 ELSE IF t > U16_MAX THEN U16_MAX ELSE t

----------------------------------------------------------------------------
(* Config::new: the temperature gradient (main.rs 167-176) *)

\* a color channel of the gradient, a ratio in [0, 1] or NaN
Chan(num, den) == [nan |-> FALSE, num |-> num, den |-> den]
ChanNaN == [nan |-> TRUE, num |-> 0, den |-> 1]

\* Rgb::new(0.0, 0., 1.0) and Rgb::new(1.0, 0., 0.)
min_temperature_color == [red |-> 0, green |-> 0, blue |-> 1]
max_temperature_color == [red |-> 1, green |-> 0, blue |-> 0]

\* Gradient::with_domain(vec![(min_temperature, blue), (max_temperature, red)])
temperature_gradient ==
    << [t |-> config.min_temperature, color |-> min_temperature_color],
       [t |-> config.max_temperature, color |-> max_temperature_color] >>

\* Rgb::mix of channel values a and b by factor num / den: a + (b - a) * factor
Mix(a, b, num, den) == Chan(a * den + (b - a) * num, den)

\* Gradient::get over two stops: the first color at or below the first stop, the
\* last color at or above the last stop, otherwise the linear mix.  A NaN fails both
\* comparisons and makes every channel of the mix NaN.
GradientGet(gradient, n) ==
    LET lo == gradient[1]
        hi == gradient[Len(gradient)]
    IN  IF n.nan
          THEN [red |-> ChanNaN, green |-> ChanNaN, blue |-> ChanNaN]
        ELSE IF n.v <= lo.t
          THEN [c \in {"red", "green", "blue"} |-> Chan(lo.color[c], 1)]
        ELSE IF n.v >= hi.t
          THEN [c \in {"red", "green", "blue"} |-> Chan(hi.color[c], 1)]
        ELSE [c \in {"red", "green", "blue"} |->
                 Mix(lo.color[c], hi.color[c], n.v - lo.t, hi.t - lo.t)]

\* Config::to_color (main.rs 300-309)
to_color(n) ==
    LET color == GradientGet(temperature_gradient, n)
    IN  [red   |-> ScaleToU16(color.red),
         green |-> ScaleToU16(color.green),
         blue  |-> ScaleToU16(color.blue)]

----------------------------------------------------------------------------
(* Config::to_intensity (main.rs 312-315), in the f32 of the program *)

\* f32::MANTISSA_DIGITS: the significand of the f32 of to_intensity.  u16::MAX
\* needs 16 bits, so this expression is evaluated at the width the program has.
F32_MANTISSA_DIGITS == 24

\* the number of binary digits of a >= 0
BitLen(a) == Exponent(0, a)

Odd(a) == a % 2 = 1

\* 2^24: integers up to it are f32 numbers; every u16 and every numerator of an f32
\* fraction is below it
F32Limit == Pow2(F32_MANTISSA_DIGITS)

\* n - self.min_reflectance and self.max_reflectance - self.min_reflectance, in
\* f32: exact up to 2^24, rounded beyond
F32Sub(x, y) ==
    IF Abs(x - y) <= F32Limit THEN x - y ELSE Round(F32_MANTISSA_DIGITS, x - y, 1)

\* u16::MAX * a for an integer a >= 0, exactly: a * 2^16 - a, as the number
\* hi * 2^16 + lo with lo < 2^16
TimesU16Max(a) ==
    LET B  == U16_MAX + 1
        ah == a \div B
        al == a % B
    IN  [hi |-> a - ah - (IF al > 0 THEN 1 ELSE 0), lo |-> IF al > 0 THEN B - al ELSE 0]

\* u16::MAX as f32 * a for an f32 integer a >= 0, rounded to f32: the number m * 2^e.
\* Of the BitLen(hi) + 16 digits of the product the f32 keeps the leading 24,
\* rounded to nearest, ties to even.
MulU16Max(a) ==
    LET p    == TimesU16Max(a)
        over == BitLen(p.hi) + 16 - F32_MANTISSA_DIGITS
        drop == IF over > 0 THEN over ELSE 0
        kept == p.hi * Pow2(16 - drop) + (p.lo \div Pow2(drop))
        rest == p.lo % Pow2(drop)
        up   == 2 * rest > Pow2(drop) \/ (2 * rest = Pow2(drop) /\ Odd(kept))
    IN  [m |-> IF up THEN kept + 1 ELSE kept, e |-> drop]

\* Long division by d > 0, one binary digit at a time: (q, r) are the quotient and
\* the remainder so far, the digits of lo are still to come and w is the weight of
\* the first of them (0 when none is left).  A quotient of 2^24 or more is beyond
\* every u16; the division stops there.
RECURSIVE DivBits(_, _, _, _, _)
DivBits(q, r, lo, w, d) ==
    IF w = 0 \/ q >= F32Limit THEN [q |-> q, r |-> r]
    ELSE LET r2 == 2 * r + (lo \div w)
         IN  IF r2 >= d THEN DivBits(2 * q + 1, r2 - d, lo % w, w \div 2, d)
                        ELSE DivBits(2 * q, r2, lo % w, w \div 2, d)

\* the weight of the first of k binary digits
Weight(k) == IF k = 0 THEN 0 ELSE Pow2(k - 1)

\* x / d in f32, for x = m * 2^e of MulU16Max and an f32 integer d > 0: the number
\* i + frac / 2^f, where f is the number of binary places the f32 has left after the
\* digits of i (below 1 the f32 has more places still, none of which brings the
\* quotient of these operands up to 1).  Rounded to nearest, ties to even.
F32Div(x, d) ==
    LET int  == DivBits(x.m \div d, x.m % d, 0, Weight(x.e), d)
        over == F32_MANTISSA_DIGITS - BitLen(int.q)
        f    == IF over > 0 THEN over ELSE 0
        frac == DivBits(0, int.r, 0, Weight(f), d)
        last == IF f = 0 THEN int.q ELSE frac.q
        up   == 2 * frac.r > d \/ (2 * frac.r = d /\ Odd(last))
    IN  [i |-> int.q, f |-> f, frac |-> IF up THEN frac.q + 1 ELSE frac.q]

\* mutant of F32AsU16: the cast rounds to the nearest integer
F32AsU16_Round(x) ==
    LET t == IF 2 * x.frac >= Pow2(x.f) THEN x.i + 1 ELSE x.i
    IN  IF t > U16_MAX THEN U16_MAX ELSE t

\* `as u16` of a float x >= 0: the fraction is dropped, and the cast saturates
F32AsU16(x) ==
    LET t == IF x.frac = Pow2(x.f) THEN x.i + 1 ELSE x.i
    IN  IF t > U16_MAX THEN U16_MAX ELSE t

\* Config::to_intensity (main.rs 312-315):
\* (u16::MAX as f32 * (n - min) / (max - min)) as u16, the product first.  A zero
\* range divides by zero: +inf casts to u16::MAX, -inf and NaN cast to 0.  A
\* negative quotient casts to 0.
to_intensity(n) ==
    LET a == F32Sub(n, config.min_reflectance)
        d == F32Sub(config.max_reflectance, config.min_reflectance)
    IN  IF d = 0 THEN (IF a > 0 THEN U16_MAX ELSE 0)
        ELSE IF a = 0 \/ (a < 0) # (d < 0) THEN 0
        ELSE F32AsU16(F32Div(MulU16Max(Abs(a)), Abs(d)))

----------------------------------------------------------------------------
(* The averaging of colorize (main.rs 256) *)

\* temperatures.iter().sum::<f64>(): the left-to-right f64 sum
RECURSIVE SumFrom(_, _)
SumFrom(acc, s) == IF s = <<>> THEN acc ELSE SumFrom(FAdd(acc, Head(s)), Tail(s))

\* mutant of Mean: the first image wins over the others
Mean_First(temperatures) == temperatures[1]

\* temperatures.iter().sum::<f64>() / temperatures.len() as f64
Mean(temperatures) == FDiv(SumFrom(0, temperatures), Len(temperatures))

----------------------------------------------------------------------------
(* ImageGroup::temperature (main.rs 431-454) *)

\* 273.15, in twentieths of a degree (main.rs 452)
KelvinZero == 5463

\* camera_calibration.width and .height of the thermal camera, in pixels
Camera == [width |-> 2, height |-> 1]

\* The raster of an irb image.  Image 1 has the size of the calibration; the
\* others are one column narrower, a raster that does not match its calibration.
Irb(image) == [width  |-> IF image = 1 THEN Camera.width ELSE Camera.width - 1,
               height |-> Camera.height]

\* Irb::temperature(u, v): the temperature in Kelvin of a pixel of the raster, an
\* error outside of it.  Every pixel of image i holds 273.15 K + 10.0 * i.
IrbTemperature(image, u, v) ==
    IF 0 <= u /\ u < Irb(image).width /\ 0 <= v /\ v < Irb(image).height
    THEN [ok |-> TRUE, k |-> KelvinZero + 200 * image]
    ELSE [ok |-> FALSE, k |-> 0]

\* An outcome of CameraCalibration::cmcs_to_ics: no pixel, or pixel coordinates
\* (u, v) inside the calibration's image, counted in half pixels.
NoProjection == [hit |-> FALSE, u |-> 0, v |-> 0]
Projections ==
    {NoProjection} \cup
    {[hit |-> TRUE, u |-> 0, v |-> 0], [hit |-> TRUE, u |-> 3, v |-> 1]}

\* the 90 degree rotation of main.rs 443-447, in half pixels
Rotate(p) ==
    IF config.rotate THEN [p EXCEPT !.u = 2 * Camera.height - p.v, !.v = p.u] ELSE p

\* u.trunc() as i32, of a coordinate counted in half pixels
Pixel(h) == Trunc(h, 2)

\* mutant of temperature: a pixel the raster does not have counts as no temperature
temperature_NoData(image, proj) ==
    IF ~proj.hit THEN [kind |-> "none", t |-> 0]
    ELSE LET p == Rotate(proj)
             k == IrbTemperature(image, Pixel(p.u), Pixel(p.v))
         IN  IF k.ok THEN [kind |-> "some", t |-> FAdd(k.k, 0 - KelvinZero)]
             ELSE [kind |-> "none", t |-> 0]

\* ImageGroup::temperature for an image and the projection of the point into it:
\* None when there is no projection, the temperature in degrees Celsius of the
\* pixel, or the panic of `expect` when the raster has no such pixel.
temperature(image, proj) ==
    IF ~proj.hit THEN [kind |-> "none", t |-> 0]
    ELSE LET p == Rotate(proj)
             k == IrbTemperature(image, Pixel(p.u), Pixel(p.v))
         IN  IF k.ok THEN [kind |-> "some", t |-> FAdd(k.k, 0 - KelvinZero)]
             ELSE [kind |-> "panic", t |-> 0]

----------------------------------------------------------------------------
(* The project and the configuration *)

\* names of the scan positions of the project (sorted as the numbers are)
ScanPositions == {1, 2}
\* file stems of rxp files: <stem>.rxp
Stems == {1, 2}
\* --scan-position: absent, or a list of names
NoNames == [some |-> FALSE, names |-> <<>>]
Selections == {NoNames, [some |-> TRUE, names |-> <<1, 1>>]}
\* reflectances of the points of a stream; --min-reflectance, --max-reflectance
Reflectances == {1}
MinReflectances == {0, 2}
MaxReflectances == {2}

Configs ==
    [keep_without_thermal : BOOLEAN,
     use_scanpos_names    : BOOLEAN,
     rotate               : BOOLEAN,
     min_reflectance      : MinReflectances,
     max_reflectance      : MaxReflectances,
     min_temperature      : {0},      \* 0.0 degrees
     max_temperature      : {400},    \* 20.0 degrees
     scan_position_names  : Selections]

\* the project layouts: the rxp lists of scan positions 1 and 2
Layout(a, b) == [rxp |-> <<a, b>>]
Projects ==
    {Layout(<<>>, <<>>), Layout(<<1>>, <<>>), Layout(<<1, 2>>, <<>>),
     Layout(<<1>>, <<1>>), Layout(<<1>>, <<2>>), Layout(<<1>>, <<1, 2>>)}

\* the output paths there can be: <las_dir>/<scan position>.las, <las_dir>/<stem>.las
Paths == [by : {"scanpos"}, name : ScanPositions] \cup [by : {"rxp"}, name : Stems]

NoInfile == [sp |-> 0, stem |-> 0]
NoTranslation == [infile |-> NoInfile, outfile |-> [by |-> "none", name |-> 0]]
NoFile == [exists |-> FALSE, src |-> NoInfile, points |-> <<>>]
NoPoint == [idx |-> 0, proj |-> <<>>, temperatures |-> <<>>]

----------------------------------------------------------------------------
(* Config::scan_positions, Config::outfile, Config::translations *)

\* scan_positions.sort_by_key(|s| &s.name): a stable insertion sort
RECURSIVE Insert(_, _)
Insert(x, s) ==
    IF s = <<>> THEN <<x>>
    ELSE IF x < Head(s) THEN <<x>> \o s
    ELSE <<Head(s)>> \o Insert(x, Tail(s))

RECURSIVE SortByName(_)
SortByName(s) == IF s = <<>> THEN <<>> ELSE Insert(s[Len(s)], SortByName(SubSeq(s, 1, Len(s) - 1)))

\* project.scan_positions.values(), in some order of the map
RECURSIVE Values(_)
Values(S) == IF S = {} THEN <<>> ELSE LET x == CHOOSE x \in S : TRUE IN <<x>> \o Values(S \ {x})

\* Config::scan_positions (main.rs 284-297)
scan_positions ==
    SortByName(IF config.scan_position_names.some
               THEN config.scan_position_names.names
               ELSE Values(ScanPositions))

\* Config::outfile (main.rs 394-402)
outfile(scan_position, infile) ==
    IF config.use_scanpos_names
    THEN [by |-> "scanpos", name |-> scan_position]
    ELSE [by |-> "rxp", name |-> infile.stem]

\* scan_position.singlescan_rxp_paths(&self.project) (main.rs 197)
singlescan_rxp_paths(scan_position) ==
    [i \in 1..Len(project.rxp[scan_position]) |->
        [sp |-> scan_position, stem |-> project.rxp[scan_position][i]]]

\* the panic of Config::translations (main.rs 201-207)
TranslationsPanics(scan_position) ==
    config.use_scanpos_names /\ Len(singlescan_rxp_paths(scan_position)) > 1

\* Config::translations (main.rs 195-218), when it does not panic
translations(scan_position) ==
    LET paths == singlescan_rxp_paths(scan_position)
    IN  [i \in 1..Len(paths) |->
            [outfile |-> outfile(scan_position, paths[i]), infile |-> paths[i]]]

----------------------------------------------------------------------------
(* main (main.rs 53-105) and Config::colorize (main.rs 221-280) *)

Panic(why) == pc' = "panicked" /\ panic' = why

\* points read so far in the run
TotalRead == LET RECURSIVE Sum(_)
                 Sum(S) == IF S = {} THEN 0
                           ELSE LET x == CHOOSE x \in S : TRUE
                                IN  stats[x].read + Sum(S \ {x})
             IN  Sum(ScanPositions)

\* Config::image_groups (main.rs 341-390) reads <image_dir>/<scan position> when it
\* is called: the irb images 1..n found there.  read_dir lists them in an order of
\* its own, here the ascending one; SpecMean goes through the other orders.
ImageListings == {[i \in 1..n |-> i] : n \in 0..MaxImages}

\* println!("{}", config) (main.rs 64, 405-427): image_groups of every selected
\* scan position, which opens their irb images; an unwrap of it may panic.
Display ==
    /\ pc = "display"
    /\ \E found \in BOOLEAN, ok \in BOOLEAN :
          /\ opened' = [opened EXCEPT !.irb = found]
          /\ IF found /\ ~ok THEN Panic("image_groups")
                             ELSE pc' = "prompt" /\ panic' = panic
    /\ UNCHANGED <<config, project, queue, sp, trs, tr, groups, pos, point, files,
                   stats, resolved, evaluated, meanvars, colorvars, intensityvars>>

\* the loop of main.rs 65-75: "y" goes on, "n" returns, anything else asks again
Prompt ==
    /\ pc = "prompt"
    /\ \E answer \in {"y", "n", "?"} :
          CASE answer = "y" -> pc' = "positions" /\ queue' = scan_positions
            [] answer = "n" -> pc' = "done" /\ queue' = queue
            [] OTHER        -> pc' = pc /\ queue' = queue
    /\ UNCHANGED <<config, project, panic, sp, trs, tr, groups, pos, point, files,
                   stats, opened, resolved, evaluated, meanvars, colorvars, intensityvars>>

\* the for loop of main.rs 83 is over: println!("Complete!")
Complete ==
    /\ pc = "positions" /\ queue = <<>>
    /\ pc' = "done"
    /\ UNCHANGED <<config, project, panic, queue, sp, trs, tr, groups, pos, point,
                   files, stats, opened, resolved, evaluated, meanvars, colorvars, intensityvars>>

\* main.rs 86 with the panic of Config::translations (main.rs 201-207)
TranslationsPanic ==
    /\ pc = "positions" /\ queue # <<>>
    /\ TranslationsPanics(Head(queue))
    /\ Panic("use_scanpos_names")
    /\ sp' = Head(queue) /\ queue' = Tail(queue)
    /\ UNCHANGED <<config, project, trs, tr, groups, pos, point, files, stats,
                   opened, resolved, evaluated, meanvars, colorvars, intensityvars>>

\* main.rs 86-102: the translations of the next scan position; none, and the loop
\* goes to the next scan position
Translations ==
    /\ pc = "positions" /\ queue # <<>>
    /\ ~TranslationsPanics(Head(queue))
    /\ LET found == translations(Head(queue))
       IN  /\ trs' = found
           /\ IF found = <<>> THEN pc' = "positions" /\ sp' = 0
                              ELSE pc' = "colorize" /\ sp' = Head(queue)
    /\ queue' = Tail(queue)
    /\ UNCHANGED <<config, project, panic, tr, groups, pos, point, files, stats,
                   opened, resolved, evaluated, meanvars, colorvars, intensityvars>>

\* mutant of ImageGroups: the images are resolved for the first file of a scan
\* position only
ImageGroups_Cached ==
    /\ pc = "colorize"
    /\ tr' = Head(trs) /\ trs' = Tail(trs)
    /\ resolved' = IF resolved[sp] >= 1 THEN resolved ELSE [resolved EXCEPT ![sp] = @ + 1]
    /\ \E listing \in {[i \in 1..n |-> i] : n \in 0..MaxImages}, ok \in BOOLEAN :
          /\ opened' = [opened EXCEPT !.irb = @ \/ listing # <<>>]
          /\ IF listing # <<>> /\ ~ok
             THEN Panic("image_groups") /\ groups' = <<>>
             ELSE pc' = "open_input" /\ panic' = panic /\ groups' = listing
    /\ UNCHANGED <<config, project, queue, sp, pos, point, files, stats, evaluated,
                   meanvars, colorvars, intensityvars>>

\* colorize is called for the next translation: image_groups (main.rs 225)
ImageGroups ==
    /\ pc = "colorize"
    /\ tr' = Head(trs) /\ trs' = Tail(trs)
    /\ resolved' = [resolved EXCEPT ![sp] = @ + 1]
    /\ \E listing \in ImageListings, ok \in BOOLEAN :
          /\ opened' = [opened EXCEPT !.irb = @ \/ listing # <<>>]
          /\ IF listing # <<>> /\ ~ok
             THEN Panic("image_groups") /\ groups' = <<>>
             ELSE pc' = "open_input" /\ panic' = panic /\ groups' = listing
    /\ UNCHANGED <<config, project, queue, sp, pos, point, files, stats, evaluated,
                   meanvars, colorvars, intensityvars>>

\* mutant of OpenInput: a stream that cannot be opened is passed over silently
OpenInput_Lenient ==
    /\ pc = "open_input"
    /\ \E ok \in BOOLEAN :
          /\ pc' = "open_output" /\ panic' = panic
          /\ opened' = IF ok THEN [opened EXCEPT !.input = @ + 1] ELSE opened
    /\ pos' = 0 /\ point' = NoPoint
    /\ UNCHANGED <<config, project, queue, sp, trs, tr, groups, files, stats,
                   resolved, evaluated, meanvars, colorvars, intensityvars>>

\* Stream::from_path(&translation.infile)...open().unwrap() (main.rs 227-230)
OpenInput ==
    /\ pc = "open_input"
    /\ \E ok \in BOOLEAN :
          IF ok THEN /\ pc' = "open_output" /\ panic' = panic
                     /\ opened' = [opened EXCEPT !.input = @ + 1]
                ELSE Panic("open_input") /\ opened' = opened
    /\ pos' = 0 /\ point' = NoPoint
    /\ UNCHANGED <<config, project, queue, sp, trs, tr, groups, files, stats,
                   resolved, evaluated, meanvars, colorvars, intensityvars>>

\* las::Writer::from_path(&translation.outfile, header).unwrap() (main.rs 232):
\* creates the file, or truncates the one there is
OpenOutput ==
    /\ pc = "open_output"
    /\ \E ok \in BOOLEAN :
          IF ok THEN /\ pc' = "streaming" /\ panic' = panic
                     /\ opened' = [opened EXCEPT !.output = @ + 1]
                     /\ files' = [files EXCEPT ![tr.outfile] =
                                     [exists |-> TRUE, src |-> tr.infile, points |-> <<>>]]
                ELSE Panic("open_output") /\ opened' = opened /\ files' = files
    /\ UNCHANGED <<config, project, queue, sp, trs, tr, groups, pos, point, stats,
                   resolved, evaluated, meanvars, colorvars, intensityvars>>

\* the temperatures of a point, given its projection into each image group:
\* image_groups.iter().filter_map(|g| g.temperature(&socs)).collect() (main.rs 240-243)
RECURSIVE Temperatures_of(_, _, _)
Temperatures_of(image_groups, proj, i) ==
    IF i > Len(image_groups) THEN <<>>
    ELSE LET t == temperature(image_groups[i], proj[i])
         IN  IF t.kind = "some" THEN <<t.t>> \o Temperatures_of(image_groups, proj, i + 1)
             ELSE Temperatures_of(image_groups, proj, i + 1)

\* whether the expect of ImageGroup::temperature panics for some image group
TemperaturePanics(image_groups, proj) ==
    \E i \in 1..Len(image_groups) : temperature(image_groups[i], proj[i]).kind = "panic"

\* the las::Point of main.rs 261-274
LasPoint(idx, reflectance, t) ==
    [idx         |-> idx,
     intensity   |-> to_intensity(reflectance),
     color       |-> to_color(F64ToF32(t)),
     temperature |-> t]

\* mutant of Skips: no point is ever skipped
Skips_Never(temperatures) == FALSE

\* mutant of Write: the point goes to the front of the file
Write_Front(points, p) == <<p>> \o points

\* main.rs 244-253: a point without temperatures is skipped (`continue`) unless
\* --keep-without-thermal was given
Skips(temperatures) == temperatures = <<>> /\ ~config.keep_without_thermal

\* writer.write(&point) (main.rs 276): the point goes to the end of the file
Write(points, p) == Append(points, p)

\* one pass of the loop body (main.rs 235-279) over a point the stream delivers
ReadPoint ==
    /\ pc = "streaming"
    /\ TotalRead < MaxPoints
    /\ pos' = pos + 1
    /\ \E proj \in [1..Len(groups) -> Projections], reflectance \in Reflectances :
          LET idx          == pos + 1
              temperatures == Temperatures_of(groups, proj, 1)
              t            == IF temperatures = <<>> THEN NaN ELSE Num(Mean(temperatures))
              nodata       == IF temperatures = <<>> THEN 1 ELSE 0
              read         == [stats EXCEPT ![sp].read = @ + 1, ![sp].nodata = @ + nodata]
              before       == files[tr.outfile].points
              after        == Write(before, LasPoint(idx, reflectance, t))
          IN  IF TemperaturePanics(groups, proj)
              THEN /\ Panic("temperature")
                   /\ point' = [idx |-> idx, proj |-> proj, temperatures |-> <<>>]
                   /\ stats' = [stats EXCEPT ![sp].read = @ + 1]
                   /\ UNCHANGED <<files, evaluated>>
              ELSE /\ point' = [idx |-> idx, proj |-> proj, temperatures |-> temperatures]
                   /\ IF Skips(temperatures)
                      THEN /\ stats' = read
                           /\ UNCHANGED <<pc, panic, files, evaluated>>
                      ELSE /\ evaluated' = TRUE
                           /\ \E ok \in BOOLEAN :
                                 IF ok
                                 THEN /\ files' = [files EXCEPT ![tr.outfile].points = after]
                                      /\ stats' = [read EXCEPT
                                             ![sp].written = @ + Len(after) - Len(before)]
                                      /\ UNCHANGED <<pc, panic>>
                                 ELSE /\ Panic("write")
                                      /\ stats' = read
                                      /\ files' = files
    /\ UNCHANGED <<config, project, queue, sp, trs, tr, groups, opened, resolved,
                   meanvars, colorvars, intensityvars>>

\* point.expect("could not read rxp point") (main.rs 236)
ReadError ==
    /\ pc = "streaming"
    /\ Panic("read")
    /\ point' = NoPoint
    /\ UNCHANGED <<config, project, queue, sp, trs, tr, groups, pos, files, stats,
                   opened, resolved, evaluated, meanvars, colorvars, intensityvars>>

\* the stream is exhausted: colorize returns and drops the writer, which closes the
\* file (main.rs 277-280); main goes to the next translation or scan position
EndOfStream ==
    /\ pc = "streaming"
    /\ tr' = NoTranslation /\ groups' = <<>> /\ pos' = 0 /\ point' = NoPoint
    /\ IF trs # <<>> THEN pc' = "colorize" /\ sp' = sp
                     ELSE pc' = "positions" /\ sp' = 0
    /\ UNCHANGED <<config, project, panic, queue, trs, files, stats, opened,
                   resolved, evaluated, meanvars, colorvars, intensityvars>>

MeanIdle == samples = <<>> /\ mean_first = 0 /\ mean_now = 0
ColorIdle == tc_n = NaN /\ tc_color = [red |-> 0, green |-> 0, blue |-> 0]
IntensityIdle == ti_n = 0 /\ ti_intensity = 0

\* the state after Config::new (main.rs 62)
Init ==
    /\ config \in Configs
    /\ project \in Projects
    /\ pc = "display" /\ panic = "none"
    /\ queue = <<>> /\ sp = 0 /\ trs = <<>> /\ tr = NoTranslation
    /\ groups = <<>> /\ pos = 0 /\ point = NoPoint
    /\ files = [p \in Paths |-> NoFile]
    /\ stats = [s \in ScanPositions |-> [read |-> 0, written |-> 0, nodata |-> 0]]
    /\ opened = [irb |-> FALSE, input |-> 0, output |-> 0]
    /\ resolved = [s \in ScanPositions |-> 0]
    /\ evaluated = FALSE
    /\ MeanIdle /\ ColorIdle /\ IntensityIdle

Next ==
    \/ Display \/ Prompt \/ Complete \/ TranslationsPanic \/ Translations
    \/ ImageGroups \/ OpenInput \/ OpenOutput \/ ReadPoint \/ ReadError \/ EndOfStream

Spec == Init /\ [][Next]_vars

----------------------------------------------------------------------------
(* SpecMean: the averaging of main.rs 256 under re-enumeration of the images *)

\* temperatures of a point: 0.1, 10.0, 20.0 and -10.0 degrees, and a value beyond
\* which the f64 of the model has to round sums
SampleValues == {2, 200, 400, 0 - 200, Pow2(MantBits + 1)}

SampleVectors == UNION {[1..n -> SampleValues] : n \in 1..MaxSamples}

IdleConfig ==
    [keep_without_thermal |-> FALSE, use_scanpos_names |-> FALSE, rotate |-> FALSE,
     min_reflectance |-> 0, max_reflectance |-> 2,
     min_temperature |-> 0, max_temperature |-> 400,
     scan_position_names |-> NoNames]

RunIdle(at) ==
    /\ project = Layout(<<>>, <<>>)
    /\ pc = at /\ panic = "none"
    /\ queue = <<>> /\ sp = 0 /\ trs = <<>> /\ tr = NoTranslation
    /\ groups = <<>> /\ pos = 0 /\ point = NoPoint
    /\ files = [p \in Paths |-> NoFile]
    /\ stats = [s \in ScanPositions |-> [read |-> 0, written |-> 0, nodata |-> 0]]
    /\ opened = [irb |-> FALSE, input |-> 0, output |-> 0]
    /\ resolved = [s \in ScanPositions |-> 0]
    /\ evaluated = FALSE

InitMean ==
    /\ config = IdleConfig
    /\ RunIdle("temperatures")
    /\ samples \in SampleVectors /\ mean_first = 0 /\ mean_now = 0
    /\ ColorIdle /\ IntensityIdle

\* main.rs 256 on the temperatures as image_groups enumerated them
Aggregate ==
    /\ pc = "temperatures"
    /\ pc' = "mean"
    /\ mean_first' = Mean(samples) /\ mean_now' = Mean(samples)
    /\ UNCHANGED <<config, project, panic, queue, sp, trs, tr, groups, pos, point,
                   files, stats, opened, resolved, evaluated, samples, colorvars, intensityvars>>

\* the same point with two neighbouring images enumerated the other way round
Reenumerate ==
    /\ pc = "mean"
    /\ \E i \in 1..(Len(samples) - 1) :
          LET swapped == [samples EXCEPT ![i] = samples[i + 1], ![i + 1] = samples[i]]
          IN  samples' = swapped /\ mean_now' = Mean(swapped)
    /\ UNCHANGED <<config, project, pc, panic, queue, sp, trs, tr, groups, pos, point,
                   files, stats, opened, resolved, evaluated, mean_first, colorvars, intensityvars>>

NextMean == Aggregate \/ Reenumerate

SpecMean == InitMean /\ [][NextMean]_vars

----------------------------------------------------------------------------
(* SpecColor: Config::to_color under the gradients of Config::new *)

\* --min-temperature and --max-temperature: 0.0, 10.0, 20.0, 30.0 degrees
GradientStops == {0, 200, 400, 600}
\* temperatures given to to_color: -5.0 to 35.0 degrees in steps of 5.0, and NaN
ColorInputs == {NaN} \cup {Num(100 * k) : k \in (0 - 1)..7}

InitColor ==
    /\ config \in {[IdleConfig EXCEPT !.min_temperature = lo, !.max_temperature = hi] :
                      lo \in GradientStops, hi \in GradientStops}
    /\ RunIdle("gradient")
    /\ MeanIdle /\ ColorIdle /\ IntensityIdle

\* self.to_color(n) (main.rs 269, 300-309)
ToColor ==
    /\ pc \in {"gradient", "color"}
    /\ pc' = "color"
    /\ \E n \in ColorInputs : tc_n' = n /\ tc_color' = to_color(n)
    /\ UNCHANGED <<config, project, panic, queue, sp, trs, tr, groups, pos, point,
                   files, stats, opened, resolved, evaluated, meanvars, intensityvars>>

NextColor == ToColor

SpecColor == InitColor /\ [][NextColor]_vars

----------------------------------------------------------------------------
(* SpecIntensity: Config::to_intensity under the ranges of Config::new *)

\* --min-reflectance, --max-reflectance and the reflectances of points: 0, 0.25,
\* 0.5, 1.0, 1.0048828125, 1.5 and 2.0, counted in units of 2^-23
ReflectanceGrid == {0, 2097152, 4194304, 8388608, 8429568, 12582912, 16777216}

InitIntensity ==
    /\ config \in {[IdleConfig EXCEPT !.min_reflectance = lo, !.max_reflectance = hi] :
                      lo \in ReflectanceGrid, hi \in ReflectanceGrid}
    /\ RunIdle("reflectance")
    /\ MeanIdle /\ ColorIdle /\ IntensityIdle

\* self.to_intensity(point.reflectance) (main.rs 267, 312-315)
ToIntensity ==
    /\ pc \in {"reflectance", "intensity"}
    /\ pc' = "intensity"
    /\ \E n \in ReflectanceGrid : ti_n' = n /\ ti_intensity' = to_intensity(n)
    /\ UNCHANGED <<config, project, panic, queue, sp, trs, tr, groups, pos, point,
                   files, stats, opened, resolved, evaluated, meanvars, colorvars>>

NextIntensity == ToIntensity

SpecIntensity == InitIntensity /\ [][NextIntensity]_vars

----------------------------------------------------------------------------
(* Properties *)

Black == [red |-> 0, green |-> 0, blue |-> 0]

\* the points of the file the running colorize call writes
Written == files[tr.outfile].points

\* the places of the written file that hold the input point of index idx
PlacesOf(idx) == {i \in 1..Len(Written) : Written[i].idx = idx}

\* C1: in colorize, a point with no temperature at all (so every point of a scan
\* position without thermal images) is, with --keep-without-thermal, written exactly
\* once, with a NaN temperature and the color (0,0,0), as long as the write itself
\* succeeds; without --keep-without-thermal it is not written and the loop goes on
\* with the next point.
C1_NoTemperature ==
    /\ (pc = "streaming" /\ point.idx > 0 /\ groups = <<>>) => point.temperatures = <<>>
    /\ (pc = "streaming" /\ point.idx > 0 /\ point.temperatures = <<>>) =>
          IF config.keep_without_thermal
          THEN /\ Cardinality(PlacesOf(point.idx)) = 1
               /\ Written[Len(Written)].idx = point.idx
               /\ Written[Len(Written)].temperature.nan
               /\ Written[Len(Written)].color = Black
          ELSE PlacesOf(point.idx) = {}
    /\ (point.idx > 0 /\ point.temperatures = <<>> /\ ~config.keep_without_thermal
          /\ panic # "temperature") => pc = "streaming"

\* C1 witness: a point of a scan position without images was kept
C1_Witness ==
    /\ pc = "streaming" /\ point.idx > 0 /\ groups = <<>>
    /\ config.keep_without_thermal
    /\ Len(Written) = 1 /\ Written[1].temperature.nan

C3_InputOrder ==
    \A p \in Paths :
       LET pts == files[p].points
       IN  /\ \A i \in 1..Len(pts) : pts[i].idx >= 1
           /\ \A i, j \in 1..Len(pts) : i < j => pts[i].idx < pts[j].idx
           /\ (pc = "streaming" /\ p = tr.outfile) =>
                 \A i \in 1..Len(pts) : pts[i].idx <= pos

\* C3 witness: a finished run left a file with two points
C3_Witness ==
    \E p \in Paths : Len(files[p].points) = 2 /\ pc = "done"

\* the sum of the magnitudes of the samples, in exact arithmetic
RECURSIVE AbsSum(_)
AbsSum(s) == IF s = <<>> THEN 0 ELSE Abs(Head(s)) + AbsSum(Tail(s))

\* the sum of the samples, in exact arithmetic
RECURSIVE ExactSum(_)
ExactSum(s) == IF s = <<>> THEN 0 ELSE Head(s) + ExactSum(Tail(s))

\* C4 as stated: the temperature of a point with samples is their mean (10.0 and
\* 20.0 give 15.0) and is the same for every order in which the images are
\* enumerated.
C4_Original ==
    pc = "mean" =>
       /\ mean_now = mean_first
       /\ (samples = <<200, 400>> => mean_now = 300)

\* C4 amended: the temperature is the f64 sum of the samples in enumeration order,
\* divided by their number: the correctly rounded arithmetic mean whenever no sum of
\* samples has to be rounded (10.0 and 20.0 give exactly 15.0), and the same for
\* both orders of two samples; with three or more samples whose sums are rounded it
\* can differ between enumeration orders.
C4_Mean ==
    pc = "mean" =>
       /\ Len(samples) <= 2 => mean_now = mean_first
       /\ AbsSum(samples) < Pow2(MantBits) =>
             /\ mean_now = mean_first
             /\ LET sum == ExactSum(samples)
                    m   == RoundNearestEven(Abs(sum), Len(samples))
                IN  mean_now = IF sum < 0 THEN 0 - m ELSE m
       /\ (samples = <<200, 400>> \/ samples = <<400, 200>>) => mean_now = 300

\* C4 witness: 20.0 and 10.0, enumerated after 10.0 and 20.0, give 15.0
C4_Witness ==
    pc = "mean" /\ samples = <<400, 200>> /\ mean_first = 300 /\ mean_now = 300

\* C5: with --use-scanpos-names and a selected scan position of more than one rxp
\* file, the run fails before any file is opened: when the panic is raised no rxp
\* stream and no las file of any scan position has been opened and no point has
\* been written.  (The irb images, which the configuration display opens before the
\* prompt of every run, are left aside.)
C5_FailFast ==
    panic = "use_scanpos_names" =>
       /\ opened.input = 0 /\ opened.output = 0
       /\ \A s \in ScanPositions : stats[s].written = 0
       /\ \A p \in Paths : ~files[p].exists

\* what a step of the run may do to an output file
C6_Step ==
    \* the output is opened only after the input was opened successfully
    /\ pc' = "open_output" => (pc = "open_input" /\ opened'.input = opened.input + 1)
    /\ opened'.output # opened.output =>
          (pc = "open_output" /\ pc' = "streaming" /\ opened'.output = opened.output + 1)
    /\ (pc' = "streaming" /\ pc # "streaming") =>
          (pc = "open_output" /\ files'[tr.outfile] =
               [exists |-> TRUE, src |-> tr.infile, points |-> <<>>])
    \* points are written only while streaming, to the end of the open file
    /\ files' # files =>
          \/ pc = "open_output" /\ pc' = "streaming"
          \/ /\ pc = "streaming" /\ pc' = "streaming"
             /\ LET now == files'[tr.outfile].points
                IN  /\ Len(now) = Len(Written) + 1
                    /\ now[Len(now)].idx = pos + 1
                    /\ files' = [files EXCEPT ![tr.outfile].points = Append(@, now[Len(now)])]
    \* streaming ends by closing the file or by a panic, and nothing follows a panic
    /\ (pc = "streaming" /\ pc' # "streaming") => pc' \in {"colorize", "positions", "panicked"}
    /\ pc = "panicked" => UNCHANGED vars
    \* a failure to open the input or the output is fatal and leaves the files alone
    /\ panic' \in {"open_input", "open_output"} =>
          /\ pc' = "panicked" /\ files' = files /\ opened'.output = opened.output
          /\ stats' = stats
    /\ panic' = "open_input" => (pc = "open_input" /\ opened'.input = opened.input)
    /\ panic' = "open_output" => pc = "open_output"

\* C6: an output file goes through opening the input, opening the output, streaming
\* and closed, in that order: the output is opened only after the input was opened
\* successfully, points are written only between the opening of both and the close,
\* and a failure to open either is fatal, creates no file and writes no point.
C6_StateMachine == [][C6_Step]_vars

\* C6 witness: one file was written and closed, then the output of the next one
\* could not be opened
C6_Witness ==
    /\ pc = "panicked" /\ panic = "open_output"
    /\ opened.input = 2 /\ opened.output = 1
    /\ \E p \in Paths : files[p].exists /\ Len(files[p].points) > 0

\* the raster of the image has no pixel where the projection of a point falls
\* (after the rotation, when --rotate is given)
LookupFails(image, proj) ==
    /\ proj.hit
    /\ LET u == IF config.rotate THEN 2 * Camera.height - proj.v ELSE proj.u
           v == IF config.rotate THEN proj.u ELSE proj.v
       IN  ~(0 <= u \div 2 /\ u \div 2 < Irb(image).width /\ 0 <= v \div 2 /\ v \div 2 < Irb(image).height)

SomeLookupFails == \E i \in 1..Len(groups) : LookupFails(groups[i], point.proj[i])

\* C7: a point whose projection into some image succeeds but whose pixel lookup in
\* that image's raster fails (also after the rotation u' = height - v, v' = u) ends
\* the run: it is not taken as a point without data, it is not written, and no
\* later point is written; projections that miss never end the run.
C7_LookupFatal ==
    /\ (point.idx > 0 /\ SomeLookupFails) =>
          /\ pc = "panicked" /\ panic = "temperature"
          /\ \A i \in 1..Len(Written) : Written[i].idx < point.idx
          /\ pos = point.idx
    /\ panic = "temperature" => (point.idx > 0 /\ SomeLookupFails)

\* C7 witness: with --rotate, the second point of a stream fell on a pixel the
\* raster does not have, after the first was written
C7_Witness ==
    /\ pc = "panicked" /\ panic = "temperature" /\ config.rotate
    /\ point.idx = 2 /\ Len(Written) = 1
    /\ \E i \in 1..Len(groups) : groups[i] = 1 /\ LookupFails(1, point.proj[i])

\* how often a scan position is visited by the loop of main
Visits(s) == Cardinality({i \in 1..Len(scan_positions) : scan_positions[i] = s})

\* C8 as stated: the image bindings of a scan position are resolved once for each
\* visit of the scan position, not once more for each of its files.
C8_Original == \A s \in ScanPositions : resolved[s] <= Visits(s)

\* what a step of the run may do to the image groups
C8_Step ==
    /\ resolved' # resolved =>
          /\ pc = "colorize" /\ tr' = Head(trs)
          /\ resolved' = [resolved EXCEPT ![sp] = @ + 1]
    /\ pc = "colorize" => resolved' # resolved
    /\ groups' # groups =>
          \/ pc = "colorize"
          \/ pc = "streaming" /\ pc' \in {"colorize", "positions"} /\ groups' = <<>>
    /\ (pc' = "streaming" /\ pc = "streaming") => (groups' = groups /\ tr' = tr)

\* C8 amended: the image bindings are resolved once by every call of colorize, that
\* is once for each source file of each visit of a scan position, before the input
\* stream of that file is opened; that snapshot serves every point of the file and
\* is not resolved again for a point.
C8_PerFile ==
    /\ [](\A s \in ScanPositions : resolved[s] <= Visits(s) * Len(project.rxp[s]))
    /\ []((pc = "done" /\ opened.output > 0) =>
             \A s \in ScanPositions : resolved[s] = Visits(s) * Len(project.rxp[s]))
    /\ [][C8_Step]_vars

\* C8 witness: both files of a scan position were colorized, each after its own
\* resolution of the images
C8_Witness ==
    /\ pc = "done" /\ ~config.scan_position_names.some
    /\ resolved[1] = 2 /\ opened.output = 2 /\ stats[1].written = 2

\* C9: a configuration whose minimum and maximum reflectance are equal is rejected
\* at startup: no rxp stream and no las file is opened and to_intensity is never
\* evaluated.
C9_ZeroRangeRejected ==
    config.min_reflectance = config.max_reflectance =>
       opened.input = 0 /\ opened.output = 0 /\ ~evaluated

\* the temperature halfway between the stops of the gradient
Midpoint(n) ==
    /\ ~n.nan
    /\ config.min_temperature < config.max_temperature
    /\ 2 * n.v = config.min_temperature + config.max_temperature

Rgb16(r, g, b) == [red |-> r, green |-> g, blue |-> b]

\* C10 as stated: at or below the minimum the color is (0,0,255), at or above the
\* maximum (255,0,0), at the midpoint (127 or 128, 0, 127 or 128).
C10_Original ==
    (pc = "color" /\ ~tc_n.nan) =>
       /\ tc_n.v <= config.min_temperature => tc_color = Rgb16(0, 0, 255)
       /\ tc_n.v >= config.max_temperature => tc_color = Rgb16(255, 0, 0)
       /\ Midpoint(tc_n) =>
             /\ tc_color.red \in {127, 128} /\ tc_color.green = 0
             /\ tc_color.blue \in {127, 128}

\* C10 amended: the channels are 16 bit wide.  At or below the minimum the color is
\* (0,0,65535); with minimum < maximum, at or above the maximum it is (65535,0,0)
\* and at the midpoint (32767,0,32767).
C10_Gradient ==
    (pc = "color" /\ ~tc_n.nan) =>
       /\ tc_n.v <= config.min_temperature => tc_color = Rgb16(0, 0, U16_MAX)
       /\ (config.min_temperature < config.max_temperature
             /\ tc_n.v >= config.max_temperature) => tc_color = Rgb16(U16_MAX, 0, 0)
       /\ Midpoint(tc_n) => tc_color = Rgb16(32767, 0, 32767)

\* C10 witness: the midpoint of the gradient from 0.0 to 20.0 degrees was colored
C10_Witness ==
    /\ pc = "color" /\ config.min_temperature = 0 /\ config.max_temperature = 400
    /\ tc_n = Num(200) /\ tc_color = Rgb16(32767, 0, 32767)

\* 65535 * (ti_n - min) / (max - min) in exact arithmetic: its integer part q and
\* the remainder r of the division by max - min
ExactIntensity ==
    LET p == TimesU16Max(ti_n - config.min_reflectance)
        d == config.max_reflectance - config.min_reflectance
    IN  DivBits(p.hi \div d, p.hi % d, p.lo, Weight(16), d)

\* to_intensity was given a reflectance inside a range with min < max
InRange ==
    /\ pc = "intensity"
    /\ config.min_reflectance < config.max_reflectance
    /\ config.min_reflectance <= ti_n /\ ti_n <= config.max_reflectance

\* C11 as stated: for a reflectance in [min, max] with min < max, to_intensity
\* returns 65535 * (value - min) / (max - min) rounded to the nearest integer: 0 at
\* min, 65535 at max, 32768 for 0.5 in the range [0, 1].
C11_Original ==
    InRange =>
       LET d == config.max_reflectance - config.min_reflectance
           e == ExactIntensity
       IN  ti_intensity = IF 2 * e.r >= d THEN e.q + 1 ELSE e.q

\* C11 amended: for a reflectance in [min, max] with min < max, to_intensity
\* returns the f32 value of 65535 * (value - min) / (max - min) with its fraction
\* dropped.  It is 0 at min and 65535 or 65534 at max; it is never more than 1 away
\* from the integer part of the exact quotient, and it is that integer part (not
\* the nearest integer) whenever the fraction of the exact quotient lies between
\* 1/32 and 31/32: 32767 for 0.5 in the range [0, 1].
C11_Truncates ==
    InRange =>
       LET d == config.max_reflectance - config.min_reflectance
           e == ExactIntensity
       IN  /\ ti_n = config.min_reflectance => ti_intensity = 0
           /\ ti_n = config.max_reflectance => ti_intensity \in {U16_MAX - 1, U16_MAX}
           /\ Abs(ti_intensity - e.q) <= 1
           /\ (32 * e.r >= d /\ 32 * e.r <= 31 * d) => ti_intensity = e.q

\* C11 witness: reflectance 0.5 in the range [0, 1] was scaled, to 32767
C11_Witness ==
    /\ pc = "intensity"
    /\ config.min_reflectance = 0 /\ config.max_reflectance = 8388608
    /\ ti_n = 4194304 /\ ti_intensity = 32767

\* the output paths that hold a file
Existing == {p \in Paths : files[p].exists}

\* C12: across a whole run no two translations share an output path, so every las
\* writer opened so far created a file of its own and no file written earlier in
\* the run was opened again and overwritten.
C12_DistinctOutputs == Cardinality(Existing) = opened.output

====
